---------------------------- MODULE Spec2Model ----------------------------
(***************************************************************************)
(* Ownership and lifecycle of the native handles held by the LiteRT-LM     *)
(* Rust bindings (src/src/lib.rs): Engine, Session and the transient       *)
(* response / benchmark buffers.  Every native call of the wrapper is one  *)
(* step of the thread that issues it; the native library is the            *)
(* environment and answers each construct/fetch call with null or with a   *)
(* fresh handle.                                                           *)
(***************************************************************************)
EXTENDS Integers, Sequences, FiniteSets, TLC

(***************************************************************************)
(* Bounds of the model.                                                    *)
(***************************************************************************)
MaxHandles == 4
MaxTextLen == 2
MaxTurns == 1

\* Two application threads.
Threads == {1, 2}

\* Model paths and prompts as bytes: 0 is the terminator, 109 = 'm',
\* 72 = 'H', 105 = 'i'.  Each set has texts without a terminator and texts
\* with one, at the front and in the middle.
Paths == {<<109>>, <<0>>, <<109, 0, 109>>}
Prompts == {<<>>, <<72, 105>>, <<0>>, <<72, 0, 105>>}

\* Bytes of native response text: 80 = 'P', 128 = a lone continuation byte,
\* 195 = the lead byte of a two-byte sequence (195 128 is U+00C0).
TextBytes == {80, 128, 195}
\* Time to first token in milliseconds (0.042 s is 42).
TtftValues == {0, 42}

BoundedSeq(S, n) == UNION {[1..k -> S] : k \in 0..n}

Texts == BoundedSeq(TextBytes, MaxTextLen)
Backends == {"Cpu", "Gpu"}

(***************************************************************************)
(* Backend::as_str: "cpu" and "gpu" as bytes.                              *)
(***************************************************************************)
\* Mutant: both backends are written "cpu".
as_str_AlwaysCpu(backend) == <<99, 112, 117>>

as_str(backend) ==
    IF backend = "Cpu" THEN <<99, 112, 117>> ELSE <<103, 112, 117>>

(***************************************************************************)
(* CString::new: fails on an interior terminator byte, reporting its       *)
(* position; otherwise the bytes followed by a terminator.                 *)
(***************************************************************************)
FirstNul(s) == CHOOSE i \in 1..Len(s) : s[i] = 0 /\ \A j \in 1..(i - 1) : s[j] # 0

\* Mutant: the text is cut at its first terminator instead of rejected.
CStringNew_Truncating(s) ==
    IF \E i \in 1..Len(s) : s[i] = 0
    THEN [ok |-> TRUE, nul_position |-> 0,
          bytes |-> Append(SubSeq(s, 1, FirstNul(s) - 1), 0)]
    ELSE [ok |-> TRUE, nul_position |-> 0, bytes |-> Append(s, 0)]

CStringNew(s) ==
    IF \E i \in 1..Len(s) : s[i] = 0
    THEN [ok |-> FALSE, nul_position |-> FirstNul(s) - 1, bytes |-> <<>>]
    ELSE [ok |-> TRUE, nul_position |-> 0, bytes |-> Append(s, 0)]

\* What the native side reads through a C string pointer (as_ptr, and
\* CStr::from_ptr on the way back): the bytes before the first terminator.
CStrBytes(c) == SubSeq(c, 1, FirstNul(c) - 1)

(***************************************************************************)
(* to_string_lossy: UTF-8 validation in chunks; every maximal invalid      *)
(* sequence becomes U+FFFD (239 191 189).                                  *)
(***************************************************************************)
REPLACEMENT == <<239, 191, 189>>

Utf8CharWidth(b) ==
    IF b < 128 THEN 1
    ELSE IF b >= 194 /\ b <= 223 THEN 2
    ELSE IF b >= 224 /\ b <= 239 THEN 3
    ELSE IF b >= 240 /\ b <= 244 THEN 4
    ELSE 0

IsCont(b) == b >= 128 /\ b <= 191

SafeGet(s, i) == IF i <= Len(s) THEN s[i] ELSE 0

SecondOk3(b, c) ==
    \/ b = 224 /\ c >= 160 /\ c <= 191
    \/ b >= 225 /\ b <= 236 /\ IsCont(c)
    \/ b = 237 /\ c >= 128 /\ c <= 159
    \/ b >= 238 /\ b <= 239 /\ IsCont(c)

SecondOk4(b, c) ==
    \/ b = 240 /\ c >= 144 /\ c <= 191
    \/ b >= 241 /\ b <= 243 /\ IsCont(c)
    \/ b = 244 /\ c >= 128 /\ c <= 143

\* The first chunk of a non-empty s: a valid character of n bytes, or an
\* invalid sequence of n bytes.
Utf8Chunk(s) ==
    LET b == s[1]
        w == Utf8CharWidth(b)
    IN  IF w = 1 THEN [valid |-> TRUE, n |-> 1]
        ELSE IF w = 2 THEN
            IF IsCont(SafeGet(s, 2)) THEN [valid |-> TRUE, n |-> 2]
            ELSE [valid |-> FALSE, n |-> 1]
        ELSE IF w = 3 THEN
            IF ~SecondOk3(b, SafeGet(s, 2)) THEN [valid |-> FALSE, n |-> 1]
            ELSE IF ~IsCont(SafeGet(s, 3)) THEN [valid |-> FALSE, n |-> 2]
            ELSE [valid |-> TRUE, n |-> 3]
        ELSE IF w = 4 THEN
            IF ~SecondOk4(b, SafeGet(s, 2)) THEN [valid |-> FALSE, n |-> 1]
            ELSE IF ~IsCont(SafeGet(s, 3)) THEN [valid |-> FALSE, n |-> 2]
            ELSE IF ~IsCont(SafeGet(s, 4)) THEN [valid |-> FALSE, n |-> 3]
            ELSE [valid |-> TRUE, n |-> 4]
        ELSE [valid |-> FALSE, n |-> 1]

RECURSIVE to_string_lossy(_)
to_string_lossy(s) ==
    IF s = <<>> THEN <<>>
    ELSE LET c == Utf8Chunk(s)
         IN  (IF c.valid THEN SubSeq(s, 1, c.n) ELSE REPLACEMENT)
                 \o to_string_lossy(SubSeq(s, c.n + 1, Len(s)))

(***************************************************************************)
(* State.                                                                  *)
(*   heap      the native objects ever constructed; a handle is an index   *)
(*             into it and 0 is the null handle                            *)
(*   engines   the Engine values the application owns                      *)
(*   sessions  the Session values the application owns                     *)
(*   pc, loc   each thread's position and the locals of its call           *)
(*   calls     the native calls each thread's call in progress has made    *)
(*   last      the call that returned in the step that led to this state,  *)
(*             if one did: its thread, its arguments, the value it         *)
(*             returned and the native calls it made                       *)
(***************************************************************************)
VARIABLES heap, engines, sessions, pc, loc, calls, last

vars == <<heap, engines, sessions, pc, loc, calls, last>>

NULL == 0

NoLoc == [op |-> "none"]

\* A native object: what it is, the handle it was built from, how many
\* delete calls it has received, and the contents of a transient buffer.
Object(kind, parent) ==
    [kind |-> kind, parent |-> parent, deleted |-> 0,
     has_text |-> FALSE, text |-> <<>>, ttft |-> 0, prefill |-> 0, decode |-> 0]

\* A handle value the native library has not handed out, or may hand out again.
Free == Object("free", NULL)

Handles == 1..MaxHandles

BufferKinds == {"responses", "benchmark_info"}

\* The answers the native library can give to a construct or fetch call:
\* null, or the handle of a new object.
NativeResult ==
    {NULL} \cup {h \in Handles : heap[h] = Free /\ \A g \in 1..(h - 1) : heap[g] # Free}

Allocate(h, object) == [heap EXCEPT ![h] = object]

\* The heap after a delete call on handle h.  A deleted settings, engine
\* or session object stays in the heap as released, since handles derived
\* from it may still be around.  The memory of a deleted buffer goes back
\* to the library, which may hand the same handle out again; a delete call
\* on a handle that holds no object is a second delete.
NativeDelete(h) ==
    IF h \notin Handles THEN heap
    ELSE IF heap[h].kind \in BufferKinds THEN [heap EXCEPT ![h] = Free]
    ELSE IF heap[h] = Free
         THEN [heap EXCEPT ![h] = [Object("released", NULL) EXCEPT !.deleted = 2]]
    ELSE [heap EXCEPT ![h] =
             [Object(@.kind, @.parent) EXCEPT !.deleted = heap[h].deleted + 1]]

Call(fn, arg, r, str) == [fn |-> fn, arg |-> arg, ret |-> r, str |-> str]

\* Error::new(message).  The messages built with format! carry the
\* NulError's position; nul_position is -1 for the fixed messages.
Error(op, message) ==
    [op |-> op, tag |-> "Err", message |-> message, nul_position |-> -1]

NulError(op, message, c) ==
    [op |-> op, tag |-> "Err", message |-> message, nul_position |-> c.nul_position]

\* Display for NulError, which the messages built with format! end with.
NulErrorText(position) ==
    "nul byte found in provided data at position: " \o ToString(position)

\* Display for Error: the one way an application can look into an Error,
\* whose message field is private.
fmt(e) ==
    "LiteRT-LM Error: " \o
        (IF e.nul_position >= 0
         THEN e.message \o ": " \o NulErrorText(e.nul_position)
         ELSE e.message)

NoInput == [none |-> TRUE]

NoLast ==
    [thread |-> 0, input |-> NoInput, ret |-> [op |-> "none", tag |-> "none"],
     calls |-> <<>>]

\* Thread t enters a call: its locals are bound and no native call is made yet.
Enter(t, label, locals) ==
    /\ pc' = [pc EXCEPT ![t] = label]
    /\ loc' = [loc EXCEPT ![t] = locals]
    /\ last' = NoLast
    /\ UNCHANGED calls

\* Thread t has made the native calls in log and goes on to label.
Goto(t, label, locals, log) ==
    /\ pc' = [pc EXCEPT ![t] = label]
    /\ loc' = [loc EXCEPT ![t] = locals]
    /\ calls' = [calls EXCEPT ![t] = log]
    /\ last' = NoLast

\* Thread t's call with arguments input returns r, having made the native
\* calls in log.
ReturnOf(t, input, r, log) ==
    /\ pc' = [pc EXCEPT ![t] = "idle"]
    /\ loc' = [loc EXCEPT ![t] = NoLoc]
    /\ calls' = [calls EXCEPT ![t] = <<>>]
    /\ last' = [thread |-> t, input |-> input, ret |-> r, calls |-> log]

Return(t, r, log) == ReturnOf(t, loc[t].input, r, log)

Init ==
    /\ heap = [h \in Handles |-> Free]
    /\ engines = {}
    /\ sessions = {}
    /\ pc = [t \in Threads |-> "idle"]
    /\ loc = [t \in Threads |-> NoLoc]
    /\ calls = [t \in Threads |-> <<>>]
    /\ last = NoLast

(***************************************************************************)
(* Engine::new.  The settings handle is private to the call until the      *)
(* Engine is returned, so deleting it after engine_create failed belongs   *)
(* to the step that sees the failure.                                      *)
(***************************************************************************)
EngineNew(t, model_path, backend) ==
    /\ pc[t] = "idle"
    /\ UNCHANGED <<heap, engines, sessions>>
    /\ LET input == [model_path |-> model_path, backend |-> backend]
           p == CStringNew(model_path)
           b == CStringNew(as_str(backend))
       IN  IF ~p.ok
           THEN ReturnOf(t, input,
                         NulError("Engine::new", "Invalid model path", p), <<>>)
           ELSE IF ~b.ok
           THEN ReturnOf(t, input,
                         NulError("Engine::new", "Invalid backend string", b), <<>>)
           ELSE Enter(t, "new_settings_create",
                      [op |-> "Engine::new", input |-> input,
                       model_path_cstr |-> p.bytes, backend_cstr |-> b.bytes,
                       settings |-> NULL])

\* Mutant: the null check on the settings handle is missing.
New_settings_create_NoNullCheck(t) ==
    /\ pc[t] = "new_settings_create"
    /\ \E settings \in NativeResult :
          /\ heap' = IF settings = NULL THEN heap
                     ELSE Allocate(settings, Object("settings", NULL))
          /\ Goto(t, "new_engine_create", [loc[t] EXCEPT !.settings = settings],
                  Append(calls[t],
                      Call("engine_settings_create", NULL, settings,
                           <<CStrBytes(loc[t].model_path_cstr),
                             CStrBytes(loc[t].backend_cstr)>>)))
    /\ UNCHANGED <<engines, sessions>>

New_settings_create(t) ==
    /\ pc[t] = "new_settings_create"
    /\ \E settings \in NativeResult :
          LET log == Append(calls[t],
                         Call("engine_settings_create", NULL, settings,
                              <<CStrBytes(loc[t].model_path_cstr),
                                CStrBytes(loc[t].backend_cstr)>>))
          IN  IF settings = NULL
              THEN /\ Return(t, Error("Engine::new",
                                      "Failed to create engine settings"), log)
                   /\ UNCHANGED heap
              ELSE /\ heap' = Allocate(settings, Object("settings", NULL))
                   /\ Goto(t, "new_engine_create",
                           [loc[t] EXCEPT !.settings = settings], log)
    /\ UNCHANGED <<engines, sessions>>

\* Mutant: the failure path returns the error without deleting the settings.
EngineCreateFailed_NoDelete(t, log) ==
    /\ Return(t, Error("Engine::new", "Failed to create engine"), log)
    /\ UNCHANGED <<heap, engines>>

\* engine_create returned null: lines 148-151.
EngineCreateFailed(t, log) ==
    /\ heap' = NativeDelete(loc[t].settings)
    /\ Return(t, Error("Engine::new", "Failed to create engine"),
              Append(log, Call("engine_settings_delete", loc[t].settings, NULL, <<>>)))
    /\ UNCHANGED engines

\* Mutant: the null check on the engine handle is missing, and an Engine
\* with a null engine handle is returned.
New_engine_create_NoNullCheck(t) ==
    /\ pc[t] = "new_engine_create"
    /\ \E engine \in NativeResult :
          /\ heap' = IF engine = NULL THEN heap
                     ELSE Allocate(engine, Object("engine", loc[t].settings))
          /\ engines' = engines \cup
                 {[raw |-> engine, _settings |-> loc[t].settings]}
          /\ Return(t, [op |-> "Engine::new", tag |-> "Ok",
                        raw |-> engine, _settings |-> loc[t].settings],
                    Append(calls[t],
                        Call("engine_create", loc[t].settings, engine, <<>>)))
    /\ UNCHANGED sessions

New_engine_create(t) ==
    /\ pc[t] = "new_engine_create"
    /\ \E engine \in NativeResult :
          LET log == Append(calls[t],
                         Call("engine_create", loc[t].settings, engine, <<>>))
          IN  IF engine = NULL
              THEN EngineCreateFailed(t, log)
              ELSE /\ heap' = Allocate(engine, Object("engine", loc[t].settings))
                   /\ engines' = engines \cup
                          {[raw |-> engine, _settings |-> loc[t].settings]}
                   /\ Return(t, [op |-> "Engine::new", tag |-> "Ok",
                                 raw |-> engine, _settings |-> loc[t].settings], log)
    /\ UNCHANGED sessions

(***************************************************************************)
(* Engine::create_session.  The call borrows the Engine (&self), so the    *)
(* Engine cannot be dropped while the call is in progress.                 *)
(***************************************************************************)
EngineBorrowed(e) ==
    \E u \in Threads : pc[u] = "cs_create_session" /\ loc[u].self = e

CreateSession(t, e) ==
    /\ pc[t] = "idle"
    /\ e \in engines
    /\ Enter(t, "cs_create_session", [op |-> "create_session", input |-> [self |-> e], self |-> e])
    /\ UNCHANGED <<heap, engines, sessions>>

\* Mutant: a failed session construction tears the engine down.
Cs_create_session_DeletesEngine(t) ==
    /\ pc[t] = "cs_create_session"
    /\ \E session \in NativeResult :
          LET log == Append(calls[t],
                         Call("engine_create_session", loc[t].self.raw, session, <<>>))
          IN  IF session = NULL
              THEN /\ heap' = NativeDelete(loc[t].self.raw)
                   /\ Return(t, Error("create_session",
                                      "Failed to create session"), log)
                   /\ UNCHANGED sessions
              ELSE /\ heap' = Allocate(session, Object("session", loc[t].self.raw))
                   /\ sessions' = sessions \cup {[raw |-> session]}
                   /\ Return(t, [op |-> "create_session", tag |-> "Ok",
                                 raw |-> session], log)
    /\ UNCHANGED engines

\* Mutant: only one create_session call at a time succeeds on an engine.
Cs_create_session_Exclusive(t) ==
    /\ pc[t] = "cs_create_session"
    /\ \E session \in NativeResult :
          LET log == Append(calls[t],
                         Call("engine_create_session", loc[t].self.raw, session, <<>>))
              busy == \E u \in Threads \ {t} :
                          pc[u] = "cs_create_session" /\ loc[u].self = loc[t].self
          IN  IF session = NULL \/ busy
              THEN /\ Return(t, Error("create_session",
                                      "Failed to create session"), log)
                   /\ UNCHANGED <<heap, sessions>>
              ELSE /\ heap' = Allocate(session, Object("session", loc[t].self.raw))
                   /\ sessions' = sessions \cup {[raw |-> session]}
                   /\ Return(t, [op |-> "create_session", tag |-> "Ok",
                                 raw |-> session], log)
    /\ UNCHANGED engines

Cs_create_session(t) ==
    /\ pc[t] = "cs_create_session"
    /\ \E session \in NativeResult :
          LET log == Append(calls[t],
                         Call("engine_create_session", loc[t].self.raw, session, <<>>))
          IN  IF session = NULL
              THEN /\ Return(t, Error("create_session",
                                      "Failed to create session"), log)
                   /\ UNCHANGED <<heap, sessions>>
              ELSE /\ heap' = Allocate(session, Object("session", loc[t].self.raw))
                   /\ sessions' = sessions \cup {[raw |-> session]}
                   /\ Return(t, [op |-> "create_session", tag |-> "Ok",
                                 raw |-> session], log)
    /\ UNCHANGED engines

(***************************************************************************)
(* Drop for Engine: engine_delete, then engine_settings_delete.  A Session *)
(* holds no borrow of its Engine (it has no lifetime parameter), so the    *)
(* Engine can be dropped while Sessions created from it are still owned.   *)
(***************************************************************************)
\* Mutant: the Engine is copied into drop instead of moved, so the
\* application still owns it afterwards.
DropEngine_Copy(t, e) ==
    /\ pc[t] = "idle"
    /\ e \in engines
    /\ ~EngineBorrowed(e)
    /\ Enter(t, "drop_engine_delete",
             [op |-> "drop(Engine)", input |-> [self |-> e], self |-> e])
    /\ UNCHANGED <<heap, engines, sessions>>

DropEngine(t, e) ==
    /\ pc[t] = "idle"
    /\ e \in engines
    /\ ~EngineBorrowed(e)
    /\ engines' = engines \ {e}
    /\ Enter(t, "drop_engine_delete", [op |-> "drop(Engine)", input |-> [self |-> e], self |-> e])
    /\ UNCHANGED <<heap, sessions>>

\* Mutant: the settings go first, while the engine built from them is alive.
Drop_engine_delete_SettingsFirst(t) ==
    /\ pc[t] = "drop_engine_delete"
    /\ heap' = NativeDelete(loc[t].self._settings)
    /\ Goto(t, "drop_settings_delete",
            [loc[t] EXCEPT !.self = [raw |-> loc[t].self._settings,
                                     _settings |-> loc[t].self.raw]],
            Append(calls[t],
                Call("engine_settings_delete", loc[t].self._settings, NULL, <<>>)))
    /\ UNCHANGED <<engines, sessions>>

Drop_engine_delete(t) ==
    /\ pc[t] = "drop_engine_delete"
    /\ heap' = NativeDelete(loc[t].self.raw)
    /\ Goto(t, "drop_settings_delete", loc[t],
            Append(calls[t], Call("engine_delete", loc[t].self.raw, NULL, <<>>)))
    /\ UNCHANGED <<engines, sessions>>

Drop_settings_delete(t) ==
    /\ pc[t] = "drop_settings_delete"
    /\ heap' = NativeDelete(loc[t].self._settings)
    /\ Return(t, [op |-> "drop(Engine)", tag |-> "Unit"],
              Append(calls[t],
                  Call("engine_settings_delete", loc[t].self._settings, NULL, <<>>)))
    /\ UNCHANGED <<engines, sessions>>

(***************************************************************************)
(* Session.  Session is Send and not Sync: it can be moved to another      *)
(* thread, but two threads never hold a reference to it at once, so at     *)
(* most one call borrows it, and it cannot be dropped while borrowed.      *)
(***************************************************************************)
SessionLabels == {"gen_generate_content", "gen_responses", "bi_get_benchmark_info", "bi_info"}

SessionBorrowed(s) ==
    \E u \in Threads : pc[u] \in SessionLabels /\ loc[u].self = s

(***************************************************************************)
(* Session::generate.  The response buffer is private to the call: once    *)
(* the native call has returned it, reading its first text, copying the    *)
(* text and deleting the buffer are one step.                              *)
(***************************************************************************)
\* Mutant: the prompt is handed to the native call without the CString
\* conversion.
Generate_Unchecked(t, s, prompt) ==
    /\ pc[t] = "idle"
    /\ s \in sessions
    /\ ~SessionBorrowed(s)
    /\ UNCHANGED <<heap, engines, sessions>>
    /\ Enter(t, "gen_generate_content",
             [op |-> "generate", input |-> [self |-> s, prompt |-> prompt],
              self |-> s, prompt_cstr |-> Append(prompt, 0), size |-> Len(prompt),
              responses |-> NULL])

Generate(t, s, prompt) ==
    /\ pc[t] = "idle"
    /\ s \in sessions
    /\ ~SessionBorrowed(s)
    /\ UNCHANGED <<heap, engines, sessions>>
    /\ LET input == [self |-> s, prompt |-> prompt]
           c == CStringNew(prompt)
       IN  IF ~c.ok
           THEN ReturnOf(t, input, NulError("generate", "Invalid prompt", c), <<>>)
           ELSE Enter(t, "gen_generate_content",
                      [op |-> "generate", input |-> input, self |-> s,
                       prompt_cstr |-> c.bytes, size |-> Len(prompt),
                       responses |-> NULL])

\* Mutant: a null response buffer is handed to responses_delete before the
\* error is returned.
Gen_generate_content_DeletesNull(t) ==
    /\ pc[t] = "gen_generate_content"
    /\ \E responses \in NativeResult :
          LET log == Append(calls[t],
                         Call("session_generate_content", loc[t].self.raw, responses,
                              <<SubSeq(loc[t].prompt_cstr, 1, loc[t].size)>>))
          IN  IF responses = NULL
              THEN /\ Return(t, Error("generate", "Failed to generate content"),
                             Append(log, Call("responses_delete", NULL, NULL, <<>>)))
                   /\ heap' = NativeDelete(NULL)
              ELSE /\ \E text_ptr \in BOOLEAN, text \in Texts :
                          /\ ~text_ptr => text = <<>>
                          /\ heap' = Allocate(responses,
                                 [Object("responses", loc[t].self.raw)
                                     EXCEPT !.has_text = text_ptr, !.text = text])
                   /\ Goto(t, "gen_responses",
                           [loc[t] EXCEPT !.responses = responses], log)
    /\ UNCHANGED <<engines, sessions>>

\* The native call answers null, or a response buffer whose first text
\* pointer is null or points at some text.
Gen_generate_content(t) ==
    /\ pc[t] = "gen_generate_content"
    /\ \E responses \in NativeResult :
          LET log == Append(calls[t],
                         Call("session_generate_content", loc[t].self.raw, responses,
                              <<SubSeq(loc[t].prompt_cstr, 1, loc[t].size)>>))
          IN  IF responses = NULL
              THEN /\ Return(t, Error("generate", "Failed to generate content"), log)
                   /\ UNCHANGED heap
              ELSE /\ \E text_ptr \in BOOLEAN, text \in Texts :
                          /\ ~text_ptr => text = <<>>
                          /\ heap' = Allocate(responses,
                                 [Object("responses", loc[t].self.raw)
                                     EXCEPT !.has_text = text_ptr, !.text = text])
                   /\ Goto(t, "gen_responses",
                           [loc[t] EXCEPT !.responses = responses], log)
    /\ UNCHANGED <<engines, sessions>>

\* Mutant: the buffer is deleted before the text is copied; the copy then
\* reads released memory and may see any text.
DeleteThenCopy(t, buf) ==
    \E text \in Texts :
        /\ heap' = NativeDelete(loc[t].responses)
        /\ Return(t, [op |-> "generate", tag |-> "Ok", text |-> to_string_lossy(text)],
                  calls[t] \o
                  << Call("responses_get_response_text_at", loc[t].responses, 1,
                          <<buf.text>>),
                     Call("responses_delete", loc[t].responses, NULL, <<>>),
                     Call("CStr::from_ptr", loc[t].responses, NULL, <<text>>) >>)

\* Lines 253-260, the first text pointer is not null: the text it points
\* at is copied, then the buffer is deleted (line 263).
CopyThenDelete(t, buf) ==
    LET text == CStrBytes(Append(buf.text, 0))
    IN  /\ heap' = NativeDelete(loc[t].responses)
        /\ Return(t, [op |-> "generate", tag |-> "Ok", text |-> to_string_lossy(text)],
                  calls[t] \o
                  << Call("responses_get_response_text_at", loc[t].responses, 1,
                          <<buf.text>>),
                     Call("CStr::from_ptr", loc[t].responses, NULL, <<text>>),
                     Call("responses_delete", loc[t].responses, NULL, <<>>) >>)

\* Mutant: the error path returns without deleting the buffer.
NoResponse_NoDelete(t) ==
    /\ UNCHANGED heap
    /\ Return(t, Error("generate", "No response generated"),
              Append(calls[t],
                  Call("responses_get_response_text_at", loc[t].responses,
                       NULL, <<>>)))

\* Mutant: an empty response ends the session: its handle is deleted too.
NoResponse_EndsSession(t) ==
    /\ heap' = [NativeDelete(loc[t].responses) EXCEPT
                   ![loc[t].self.raw] = [@ EXCEPT !.deleted = @ + 1]]
    /\ Return(t, Error("generate", "No response generated"),
              calls[t] \o
              << Call("responses_get_response_text_at", loc[t].responses, NULL, <<>>),
                 Call("responses_delete", loc[t].responses, NULL, <<>>),
                 Call("session_delete", loc[t].self.raw, NULL, <<>>) >>)

\* Lines 257-259, the first text pointer is null.
NoResponse(t) ==
    /\ heap' = NativeDelete(loc[t].responses)
    /\ Return(t, Error("generate", "No response generated"),
              calls[t] \o
              << Call("responses_get_response_text_at", loc[t].responses, NULL, <<>>),
                 Call("responses_delete", loc[t].responses, NULL, <<>>) >>)

Gen_responses(t) ==
    /\ pc[t] = "gen_responses"
    /\ LET buf == heap[loc[t].responses]
       IN  IF buf.has_text THEN CopyThenDelete(t, buf) ELSE NoResponse(t)
    /\ UNCHANGED <<engines, sessions>>

(***************************************************************************)
(* Session::get_benchmark_info.  The metrics buffer is private to the      *)
(* call: the three reads, the delete and the return are one step.          *)
(***************************************************************************)
\* c_int as usize: sign-extension to 64 bits, reinterpreted as unsigned.  A
\* count n >= 0 keeps its value; a negative n becomes usize::MAX - (-n - 1),
\* written as a record because the value is beyond the integers TLC holds.
\* The native layer reports counts, which are not negative.
AsUsize(n) == IF n >= 0 THEN n ELSE [usize_max_minus |-> (-n) - 1]

\* Mutant: the call starts on a Session that another call is using, as if
\* Session were Sync.
GetBenchmarkInfo_Shared(t, s) ==
    /\ pc[t] = "idle"
    /\ s \in sessions
    /\ Enter(t, "bi_get_benchmark_info",
             [op |-> "get_benchmark_info", input |-> [self |-> s], self |-> s,
              info |-> NULL])
    /\ UNCHANGED <<heap, engines, sessions>>

GetBenchmarkInfo(t, s) ==
    /\ pc[t] = "idle"
    /\ s \in sessions
    /\ ~SessionBorrowed(s)
    /\ Enter(t, "bi_get_benchmark_info",
             [op |-> "get_benchmark_info", input |-> [self |-> s], self |-> s,
              info |-> NULL])
    /\ UNCHANGED <<heap, engines, sessions>>

\* Mutant: a null metrics buffer is reported with the message of a failed
\* generation.
Bi_get_benchmark_info_SameMessage(t) ==
    /\ pc[t] = "bi_get_benchmark_info"
    /\ \E info \in NativeResult :
          LET log == Append(calls[t],
                         Call("session_get_benchmark_info", loc[t].self.raw, info, <<>>))
          IN  IF info = NULL
              THEN /\ Return(t, Error("get_benchmark_info",
                                      "Failed to generate content"), log)
                   /\ UNCHANGED heap
              ELSE /\ \E ttft \in TtftValues, p \in 0..MaxTurns, d \in 0..MaxTurns :
                          heap' = Allocate(info,
                              [Object("benchmark_info", loc[t].self.raw)
                                  EXCEPT !.ttft = ttft, !.prefill = p, !.decode = d])
                   /\ Goto(t, "bi_info", [loc[t] EXCEPT !.info = info], log)
    /\ UNCHANGED <<engines, sessions>>

Bi_get_benchmark_info(t) ==
    /\ pc[t] = "bi_get_benchmark_info"
    /\ \E info \in NativeResult :
          LET log == Append(calls[t],
                         Call("session_get_benchmark_info", loc[t].self.raw, info, <<>>))
          IN  IF info = NULL
              THEN /\ Return(t, Error("get_benchmark_info",
                                      "Failed to get benchmark info"), log)
                   /\ UNCHANGED heap
              ELSE /\ \E ttft \in TtftValues, p \in 0..MaxTurns, d \in 0..MaxTurns :
                          heap' = Allocate(info,
                              [Object("benchmark_info", loc[t].self.raw)
                                  EXCEPT !.ttft = ttft, !.prefill = p, !.decode = d])
                   /\ Goto(t, "bi_info", [loc[t] EXCEPT !.info = info], log)
    /\ UNCHANGED <<engines, sessions>>

\* Mutant: the metrics buffer is never deleted.
ReadThenDelete_Leak(t, buf) ==
    /\ UNCHANGED heap
    /\ Return(t, [op |-> "get_benchmark_info", tag |-> "Ok",
                  time_to_first_token |-> buf.ttft,
                  num_prefill_turns |-> AsUsize(buf.prefill),
                  num_decode_turns |-> AsUsize(buf.decode)],
              calls[t] \o
              << Call("benchmark_info_get_time_to_first_token", loc[t].info,
                      buf.ttft, <<>>),
                 Call("benchmark_info_get_num_prefill_turns", loc[t].info,
                      buf.prefill, <<>>),
                 Call("benchmark_info_get_num_decode_turns", loc[t].info,
                      buf.decode, <<>>) >>)

\* Mutant: the two turn counts end up in each other's field.
ReadThenDelete_Swapped(t, buf) ==
    /\ heap' = NativeDelete(loc[t].info)
    /\ Return(t, [op |-> "get_benchmark_info", tag |-> "Ok",
                  time_to_first_token |-> buf.ttft,
                  num_prefill_turns |-> AsUsize(buf.decode),
                  num_decode_turns |-> AsUsize(buf.prefill)],
              calls[t] \o
              << Call("benchmark_info_get_time_to_first_token", loc[t].info,
                      buf.ttft, <<>>),
                 Call("benchmark_info_get_num_prefill_turns", loc[t].info,
                      buf.prefill, <<>>),
                 Call("benchmark_info_get_num_decode_turns", loc[t].info,
                      buf.decode, <<>>),
                 Call("benchmark_info_delete", loc[t].info, NULL, <<>>) >>)

\* Lines 280-293.
ReadThenDelete(t, buf) ==
    LET time_to_first_token == buf.ttft
        num_prefill_turns == buf.prefill
        num_decode_turns == buf.decode
    IN  /\ heap' = NativeDelete(loc[t].info)
        /\ Return(t, [op |-> "get_benchmark_info", tag |-> "Ok",
                      time_to_first_token |-> time_to_first_token,
                      num_prefill_turns |-> AsUsize(num_prefill_turns),
                      num_decode_turns |-> AsUsize(num_decode_turns)],
                  calls[t] \o
                  << Call("benchmark_info_get_time_to_first_token", loc[t].info,
                          time_to_first_token, <<>>),
                     Call("benchmark_info_get_num_prefill_turns", loc[t].info,
                          num_prefill_turns, <<>>),
                     Call("benchmark_info_get_num_decode_turns", loc[t].info,
                          num_decode_turns, <<>>),
                     Call("benchmark_info_delete", loc[t].info, NULL, <<>>) >>)

Bi_info(t) ==
    /\ pc[t] = "bi_info"
    /\ ReadThenDelete(t, heap[loc[t].info])
    /\ UNCHANGED <<engines, sessions>>

(***************************************************************************)
(* Drop for Session                                                        *)
(***************************************************************************)
DropSession(t, s) ==
    /\ pc[t] = "idle"
    /\ s \in sessions
    /\ ~SessionBorrowed(s)
    /\ sessions' = sessions \ {s}
    /\ Enter(t, "drop_session_delete", [op |-> "drop(Session)", input |-> [self |-> s], self |-> s])
    /\ UNCHANGED <<heap, engines>>

\* Mutant: dropping a Session deletes every session of its engine.
Drop_session_delete_Siblings(t) ==
    /\ pc[t] = "drop_session_delete"
    /\ heap' = [h \in Handles |->
                   IF /\ heap[h].kind = "session"
                      /\ heap[h].parent = heap[loc[t].self.raw].parent
                   THEN [heap[h] EXCEPT !.deleted = @ + 1]
                   ELSE heap[h]]
    /\ Return(t, [op |-> "drop(Session)", tag |-> "Unit"],
              Append(calls[t], Call("session_delete", loc[t].self.raw, NULL, <<>>)))
    /\ UNCHANGED <<engines, sessions>>

Drop_session_delete(t) ==
    /\ pc[t] = "drop_session_delete"
    /\ heap' = NativeDelete(loc[t].self.raw)
    /\ Return(t, [op |-> "drop(Session)", tag |-> "Unit"],
              Append(calls[t], Call("session_delete", loc[t].self.raw, NULL, <<>>)))
    /\ UNCHANGED <<engines, sessions>>

Next ==
    \E t \in Threads :
        \/ \E model_path \in Paths, backend \in Backends :
               EngineNew(t, model_path, backend)
        \/ New_settings_create(t)
        \/ New_engine_create(t)
        \/ \E e \in engines : CreateSession(t, e)
        \/ Cs_create_session(t)
        \/ \E e \in engines : DropEngine(t, e)
        \/ Drop_engine_delete(t)
        \/ Drop_settings_delete(t)
        \/ \E s \in sessions, prompt \in Prompts : Generate(t, s, prompt)
        \/ Gen_generate_content(t)
        \/ Gen_responses(t)
        \/ \E s \in sessions : GetBenchmarkInfo(t, s)
        \/ Bi_get_benchmark_info(t)
        \/ Bi_info(t)
        \/ \E s \in sessions : DropSession(t, s)
        \/ Drop_session_delete(t)

Spec == Init /\ [][Next]_vars


(***************************************************************************)
(* Properties.                                                             *)
(*                                                                         *)
(* The code's Error carries a message only.  The error kinds of the        *)
(* specification are read off the messages:                                *)
(*   InvalidArgument           "Invalid model path", "Invalid backend      *)
(*                             string", "Invalid prompt"                   *)
(*   NativeConstructionFailed  "Failed to create engine settings",         *)
(*                             "Failed to create engine",                  *)
(*                             "Failed to create session"                  *)
(*   GenerationFailed          "Failed to generate content"                *)
(*   EmptyResponse             "No response generated"                     *)
(*   MetricsUnavailable        "Failed to get benchmark info"              *)
(***************************************************************************)
DeleteFns ==
    {"engine_settings_delete", "engine_delete", "session_delete",
     "responses_delete", "benchmark_info_delete"}

\* The number of delete calls on handle h in a log of native calls.
Deletes(log, h) ==
    Cardinality({i \in DOMAIN log : log[i].fn \in DeleteFns /\ log[i].arg = h})

\* The positions of the calls of fn in a log.
CallsOf(log, fn) == {i \in DOMAIN log : log[i].fn = fn}

ContainsNul(s) == \E i \in DOMAIN s : s[i] = 0

\* The engine a session handle was created from has received engine_delete.
EngineDestroyed(session) == heap[heap[session].parent].deleted > 0

\* C1: a session never outlives its engine: no Session is owned, and no
\* session handle is about to be passed to session_generate_content,
\* session_get_benchmark_info or session_delete, once engine_delete has been
\* issued for the engine that created it.
C1_SessionNeverOutlivesEngine ==
    /\ \A s \in sessions : ~EngineDestroyed(s.raw)
    /\ \A t \in Threads :
           pc[t] \in {"gen_generate_content", "bi_get_benchmark_info",
                      "drop_session_delete"}
               => ~EngineDestroyed(loc[t].self.raw)

\* C2: no handle receives more than one delete call, and an Engine that is
\* being dropped is owned by nobody else, so it cannot be dropped again.
C2_NoDoubleDelete ==
    /\ \A h \in Handles :
           /\ heap[h].deleted <= 1
           /\ Deletes(last.calls, h) <= 1
           /\ \A t \in Threads : Deletes(calls[t], h) <= 1
    /\ \A t \in Threads :
           pc[t] \in {"drop_engine_delete", "drop_settings_delete"} =>
               /\ loc[t].self \notin engines
               /\ \A u \in Threads \ {t} :
                      pc[u] \in {"drop_engine_delete", "drop_settings_delete"}
                          => loc[u].self # loc[t].self

\* C2 witness: an Engine's drop has returned, with its engine and its
\* settings deleted once each, after a Session of it was dropped too.
C2_Witness ==
    /\ last.ret.op = "drop(Engine)"
    /\ heap[last.input.self.raw].deleted = 1
    /\ heap[last.input.self._settings].deleted = 1
    /\ \E h \in Handles :
           /\ heap[h].kind = "session"
           /\ heap[h].parent = last.input.self.raw
           /\ heap[h].deleted = 1

\* The handles a thread's call in progress is responsible for.
HeldBy(t) ==
    CASE pc[t] = "new_engine_create" -> {loc[t].settings}
      [] pc[t] = "drop_engine_delete" -> {loc[t].self.raw, loc[t].self._settings}
      [] pc[t] = "drop_settings_delete" -> {loc[t].self._settings}
      [] pc[t] = "drop_session_delete" -> {loc[t].self.raw}
      [] pc[t] = "gen_responses" -> {loc[t].responses}
      [] pc[t] = "bi_info" -> {loc[t].info}
      [] OTHER -> {}

Owned ==
    {e.raw : e \in engines} \cup {e._settings : e \in engines}
        \cup {s.raw : s \in sessions}

Live == {h \in Handles : heap[h].kind # "free" /\ heap[h].deleted = 0}

\* C3: no leak: every object that has not been deleted is held by an owned
\* Engine or Session or by a call in progress that has yet to delete it;
\* so once a call has returned its buffers (and the settings of a failed
\* engine construction) are released, and once an owner's drop has returned
\* its handles are.
C3_NoLeak == Live \subseteq (Owned \cup UNION {HeldBy(t) : t \in Threads})

\* C3 witness: everything is dropped and every call has returned, after an
\* engine, its settings and a session were constructed: nothing is live.
C3_Witness ==
    /\ \A t \in Threads : pc[t] = "idle"
    /\ engines = {} /\ sessions = {}
    /\ \E h \in Handles : heap[h].kind = "session"
    /\ last.ret.op = "drop(Session)"
    /\ Live = {}

\* C4: when engine_settings_create returned a handle and engine_create
\* returned null, Engine::new returns the error "Failed to create engine"
\* (NativeConstructionFailed) and no Engine, and has deleted the settings
\* exactly once, as its last native call.
C4_EngineCreateFailure ==
    (/\ last.ret.op = "Engine::new"
     /\ \E i \in CallsOf(last.calls, "engine_settings_create") :
            last.calls[i].ret # NULL
     /\ \E j \in CallsOf(last.calls, "engine_create") : last.calls[j].ret = NULL)
    => LET i == CHOOSE i \in CallsOf(last.calls, "engine_settings_create") : TRUE
           settings == last.calls[i].ret
       IN  /\ last.ret.tag = "Err"
           /\ last.ret.message = "Failed to create engine"
           /\ Deletes(last.calls, settings) = 1
           /\ last.calls[Len(last.calls)] =
                  Call("engine_settings_delete", settings, NULL, <<>>)
           /\ heap[settings].deleted = 1
           /\ \A e \in engines : e._settings # settings

\* C4 witness: Engine::new has returned "Failed to create engine".
C4_Witness ==
    /\ last.ret.op = "Engine::new"
    /\ last.ret.tag = "Err"
    /\ last.ret.message = "Failed to create engine"

\* C5: when engine_settings_create returned null, Engine::new returns the
\* error "Failed to create engine settings" (NativeConstructionFailed) and
\* that call is the only native call it made: no engine_create, no delete.
C5_SettingsCreateFailure ==
    (/\ last.ret.op = "Engine::new"
     /\ \E i \in CallsOf(last.calls, "engine_settings_create") :
            last.calls[i].ret = NULL)
    => /\ last.ret.tag = "Err"
       /\ last.ret.message = "Failed to create engine settings"
       /\ Len(last.calls) = 1
       /\ CallsOf(last.calls, "engine_create") = {}
       /\ \A h \in Handles : Deletes(last.calls, h) = 0

\* C5 witness: Engine::new has returned "Failed to create engine settings".
C5_Witness ==
    /\ last.ret.op = "Engine::new"
    /\ last.ret.tag = "Err"
    /\ last.ret.message = "Failed to create engine settings"

\* C6: for a model path with an embedded terminator byte, Engine::new
\* returns the error "Invalid model path" (InvalidArgument) and makes no
\* native call at all.
C6_NulInModelPath ==
    (last.ret.op = "Engine::new" /\ ContainsNul(last.input.model_path))
    => /\ last.ret.tag = "Err"
       /\ last.ret.message = "Invalid model path"
       /\ last.calls = <<>>

\* C6 witness: Engine::new has rejected a path whose terminator byte is in
\* the middle.
C6_Witness ==
    /\ last.ret.op = "Engine::new"
    /\ last.input.model_path = <<109, 0, 109>>
    /\ last.ret.tag = "Err"
    /\ last.ret.nul_position = 1

\* The generate call that returned last got a response buffer.
GotResponses ==
    /\ last.ret.op = "generate"
    /\ \E i \in CallsOf(last.calls, "session_generate_content") :
           last.calls[i].ret # NULL

Responses ==
    last.calls[CHOOSE i \in CallsOf(last.calls, "session_generate_content") : TRUE].ret

\* The answer of the call of responses_get_response_text_at.
TextAt ==
    last.calls[CHOOSE i \in CallsOf(last.calls, "responses_get_response_text_at") : TRUE]

\* The buffer received exactly one delete call, by fn, as the last native
\* call, and is released.
DeletedOnceAtEnd(buffer, fn) ==
    /\ Deletes(last.calls, buffer) = 1
    /\ last.calls[Len(last.calls)] = Call(fn, buffer, NULL, <<>>)
    /\ heap[buffer].kind = "free"

\* C7: when the response buffer's first text pointer is null, generate
\* returns the error "No response generated" (EmptyResponse) and has deleted
\* the buffer exactly once.
C7_EmptyResponse ==
    (GotResponses /\ TextAt.ret = NULL)
    => /\ last.ret.tag = "Err"
       /\ last.ret.message = "No response generated"
       /\ DeletedOnceAtEnd(Responses, "responses_delete")

\* C7 witness: generate has returned "No response generated".
C7_Witness ==
    /\ GotResponses
    /\ last.ret.tag = "Err"
    /\ last.ret.message = "No response generated"

\* The text was copied from the buffer before the buffer was deleted, and
\* nothing touched the buffer after the delete.
CopiedBeforeDelete ==
    /\ DeletedOnceAtEnd(Responses, "responses_delete")
    /\ \E i \in CallsOf(last.calls, "CStr::from_ptr") :
           \A j \in CallsOf(last.calls, "responses_delete") : i < j

WellFormedUtf8(s) ==
    \A i \in DOMAIN s :
        \/ s[i] < 128
        \/ s[i] >= 194 /\ s[i] <= 223 /\ i < Len(s) /\ s[i + 1] >= 128 /\ s[i + 1] <= 191
        \/ s[i] >= 128 /\ s[i] <= 191 /\ i > 1 /\ s[i - 1] >= 194 /\ s[i - 1] <= 223

\* The positions of the bytes of s that belong to no well-formed character.
IllFormedAt(s) ==
    {i \in DOMAIN s :
        ~ \/ s[i] < 128
          \/ s[i] >= 194 /\ s[i] <= 223 /\ i < Len(s) /\ s[i + 1] >= 128 /\ s[i + 1] <= 191
          \/ s[i] >= 128 /\ s[i] <= 191 /\ i > 1 /\ s[i - 1] >= 194 /\ s[i - 1] <= 223}

GotInfo ==
    /\ last.ret.op = "get_benchmark_info"
    /\ \E i \in CallsOf(last.calls, "session_get_benchmark_info") :
           last.calls[i].ret # NULL

Info ==
    last.calls[CHOOSE i \in CallsOf(last.calls, "session_get_benchmark_info") : TRUE].ret

\* What the accessor fn answered in the call that returned last.
Reported(fn) == last.calls[CHOOSE i \in CallsOf(last.calls, fn) : TRUE].ret

Accessors ==
    {"benchmark_info_get_time_to_first_token",
     "benchmark_info_get_num_prefill_turns",
     "benchmark_info_get_num_decode_turns"}

\* C9: for a metrics buffer reporting t, p and d, get_benchmark_info returns
\* a value with exactly these three fields, and deletes the buffer exactly
\* once, after the three accessor calls.
C9_BenchmarkInfo ==
    GotInfo
    => /\ last.ret.tag = "Ok"
       /\ \A fn \in Accessors : Cardinality(CallsOf(last.calls, fn)) = 1
       /\ last.ret.time_to_first_token =
              Reported("benchmark_info_get_time_to_first_token")
       /\ last.ret.num_prefill_turns =
              Reported("benchmark_info_get_num_prefill_turns")
       /\ last.ret.num_decode_turns =
              Reported("benchmark_info_get_num_decode_turns")
       /\ DeletedOnceAtEnd(Info, "benchmark_info_delete")
       /\ \A fn \in Accessors :
              \A i \in CallsOf(last.calls, fn) :
                  /\ last.calls[i].arg = Info
                  /\ \A j \in CallsOf(last.calls, "benchmark_info_delete") : i < j

\* C9 witness: get_benchmark_info has returned 0.042 s, 1 prefill turn and
\* 0 decode turns.
C9_Witness ==
    /\ GotInfo
    /\ last.ret.tag = "Ok"
    /\ last.ret.time_to_first_token = 42
    /\ last.ret.num_prefill_turns = 1
    /\ last.ret.num_decode_turns = 0

\* A create_session call has just failed.
CreateSessionFailed ==
    /\ last.ret.op = "create_session"
    /\ \E i \in CallsOf(last.calls, "engine_create_session") :
           last.calls[i].ret = NULL

\* C10, after the failure: the error is "Failed to create session"
\* (NativeConstructionFailed), the only native call was the failed one, the
\* Engine is still owned with its engine and settings not deleted, and a
\* further create_session call on it can start.
C10_AfterFailure ==
    CreateSessionFailed
    => LET e == last.input.self
       IN  /\ last.ret.tag = "Err"
           /\ last.ret.message = "Failed to create session"
           /\ last.calls = <<Call("engine_create_session", e.raw, NULL, <<>>)>>
           /\ e \in engines
           /\ heap[e.raw].kind = "engine" /\ heap[e.raw].deleted = 0
           /\ heap[e._settings].kind = "settings" /\ heap[e._settings].deleted = 0
           /\ \A s \in sessions : s.raw # NULL
           /\ ENABLED CreateSession(last.thread, e)

\* C10, the later drop: the drop of an Engine deletes its engine handle and
\* its settings handle, once each.
C10_LaterDrop ==
    last.ret.op = "drop(Engine)"
    => LET e == last.input.self
       IN  /\ Deletes(last.calls, e.raw) = 1
           /\ Deletes(last.calls, e._settings) = 1
           /\ Len(last.calls) = 2
           /\ heap[e.raw].deleted = 1
           /\ heap[e._settings].deleted = 1

\* C10, the failing step: it changes no native object, no Engine and no
\* Session.
C10_FailingStep ==
    \A t \in Threads :
        (pc[t] = "cs_create_session" /\ pc'[t] = "idle" /\ last'.ret.tag = "Err")
        => /\ heap' = heap
           /\ engines' = engines
           /\ sessions' = sessions

\* C10: when session construction fails on a successfully constructed
\* Engine, create_session returns "Failed to create session" and no Session,
\* the Engine keeps both handles unreleased and stays usable, and its drop
\* releases each of the two handles exactly once.
C10_CreateSessionFailure ==
    /\ [](C10_AfterFailure /\ C10_LaterDrop)
    /\ [][C10_FailingStep]_vars

\* C10 witness: create_session has just failed on an Engine that already
\* has a live Session.
C10_Witness ==
    /\ CreateSessionFailed
    /\ last.input.self \in engines
    /\ \E s \in sessions : heap[s.raw].parent = last.input.self.raw

\* C11: dropping an Engine issues engine_delete on its engine handle and
\* then engine_settings_delete on its settings handle, these two calls and
\* no others; and in every state an engine that has not been deleted has
\* settings that have not been deleted.
C11_DropOrder ==
    /\ last.ret.op = "drop(Engine)"
           => last.calls =
                  << Call("engine_delete", last.input.self.raw, NULL, <<>>),
                     Call("engine_settings_delete", last.input.self._settings,
                          NULL, <<>>) >>
    /\ \A t \in Threads :
           pc[t] = "drop_settings_delete"
               => /\ calls[t] = <<Call("engine_delete", loc[t].self.raw, NULL, <<>>)>>
                  /\ heap[loc[t].self.raw].deleted = 1
                  /\ heap[loc[t].self._settings].deleted = 0
    /\ \A h \in Handles :
           (heap[h].kind = "engine" /\ heap[h].deleted = 0)
               => /\ heap[heap[h].parent].kind = "settings"
                  /\ heap[heap[h].parent].deleted = 0

\* C11 witness: a drop is between its two calls: the engine is deleted and
\* its settings are not yet.
C11_Witness ==
    \E t \in Threads :
        /\ pc[t] = "drop_settings_delete"
        /\ heap[loc[t].self.raw].kind = "engine"
        /\ heap[loc[t].self.raw].deleted = 1
        /\ heap[loc[t].self._settings].kind = "settings"
        /\ heap[loc[t].self._settings].deleted = 0

\* The create_session call that returned last got a session handle.
GotSession ==
    /\ last.ret.op = "create_session"
    /\ \E i \in CallsOf(last.calls, "engine_create_session") :
           last.calls[i].ret # NULL

\* C12, during the call: an Engine that create_session calls are reading,
\* one or two at once, stays owned with both handles as they were.
C12_EngineOnlyRead ==
    \A t \in Threads :
        pc[t] = "cs_create_session"
            => /\ loc[t].self \in engines
               /\ heap[loc[t].self.raw].kind = "engine"
               /\ heap[loc[t].self.raw].deleted = 0
               /\ heap[loc[t].self._settings].kind = "settings"
               /\ heap[loc[t].self._settings].deleted = 0

\* C12, the outcome: whenever engine_create_session answered a handle, the
\* call returns a Session holding that handle, whatever the other thread is
\* doing.
C12_Succeeds ==
    GotSession
    => /\ last.ret.tag = "Ok"
       /\ last.ret.raw = last.calls[1].ret
       /\ [raw |-> last.ret.raw] \in sessions
       /\ heap[last.ret.raw] = Object("session", last.input.self.raw)
       /\ last.input.self \in engines

\* C12, the returning step: the new Session's handle is none that a Session
\* holds already, and the step changes nothing else: not the Engine, not
\* another native object, not the other thread's call.
C12_ReturningStep ==
    \A t \in Threads :
        (pc[t] = "cs_create_session" /\ pc'[t] = "idle" /\ last'.ret.tag = "Ok")
        => LET new == last'.ret.raw
           IN  /\ new \notin {s.raw : s \in sessions}
               /\ heap[new] = Free
               /\ sessions' = sessions \cup {[raw |-> new]}
               /\ engines' = engines
               /\ \A h \in Handles \ {new} : heap'[h] = heap[h]
               /\ \A u \in Threads \ {t} :
                      pc'[u] = pc[u] /\ loc'[u] = loc[u] /\ calls'[u] = calls[u]

\* C12: two threads calling create_session on the same Engine at once both
\* succeed when the native call answers a handle for both, each with a
\* Session of its own handle, and the Engine's two handles are unchanged.
C12_ConcurrentCreateSession ==
    /\ [](C12_EngineOnlyRead /\ C12_Succeeds)
    /\ [][C12_ReturningStep]_vars

\* C12 witness: one thread's create_session has returned a Session while
\* the other thread's create_session on the same Engine is in progress.
C12_Witness ==
    /\ GotSession
    /\ last.ret.tag = "Ok"
    /\ \E u \in Threads \ {last.thread} :
           pc[u] = "cs_create_session" /\ loc[u].self = last.input.self

\* Thread t has a generate or get_benchmark_info call in flight.
InFlight(t) == pc[t] \in SessionLabels

\* C13: at most one generate or get_benchmark_info call is in flight on a
\* session handle, the Session of a call in flight is still owned, and no
\* drop is about to issue session_delete (or has issued it) for a handle a
\* call is in flight on.
C13_OneCallerPerSession ==
    /\ \A t, u \in Threads :
           (t # u /\ InFlight(t) /\ InFlight(u))
               => loc[t].self.raw # loc[u].self.raw
    /\ \A t \in Threads :
           InFlight(t)
               => /\ loc[t].self \in sessions
                  /\ heap[loc[t].self.raw].kind = "session"
                  /\ heap[loc[t].self.raw].deleted = 0
                  /\ \A u \in Threads :
                         pc[u] = "drop_session_delete"
                             => loc[u].self.raw # loc[t].self.raw

\* C13 witness: both threads have a call in flight, each on its own
\* Session of the same Engine.
C13_Witness ==
    /\ \A t \in Threads : InFlight(t)
    /\ \E t, u \in Threads :
           /\ pc[t] \in {"gen_generate_content", "gen_responses"}
           /\ pc[u] \in {"bi_get_benchmark_info", "bi_info"}
           /\ loc[t].self # loc[u].self
           /\ heap[loc[t].self.raw].parent = heap[loc[u].self.raw].parent

ConstructFns ==
    {"engine_settings_create", "engine_create", "engine_create_session"}

\* The handles the Engine or Session returned by the last call holds.
ReturnedHandles ==
    IF last.ret.op = "Engine::new" THEN {last.ret.raw, last.ret._settings}
    ELSE {last.ret.raw}

\* C14: every owned Engine holds a non-null engine handle and a non-null
\* settings handle, each of an object of its kind; every owned Session holds
\* a non-null handle of a session object; and a call that returns an owner
\* has had no null answer from a construction call, and returns the handles
\* that the construction calls answered; an Engine::new that fails leaves no
\* Engine holding a handle it constructed.
C14_NoPartialSuccess ==
    /\ \A e \in engines :
           /\ e.raw # NULL /\ heap[e.raw].kind = "engine"
           /\ e._settings # NULL /\ heap[e._settings].kind = "settings"
           /\ heap[e.raw].parent = e._settings
    /\ \A s \in sessions : s.raw # NULL /\ heap[s.raw].kind = "session"
    /\ (last.ret.op \in {"Engine::new", "create_session"} /\ last.ret.tag = "Ok")
           => /\ NULL \notin ReturnedHandles
              /\ \A i \in DOMAIN last.calls :
                     last.calls[i].fn \in ConstructFns => last.calls[i].ret # NULL
              /\ ReturnedHandles =
                     {last.calls[i].ret : i \in
                         {j \in DOMAIN last.calls : last.calls[j].fn \in ConstructFns}}
    /\ (last.ret.op = "Engine::new" /\ last.ret.tag = "Err")
           => \A i \in DOMAIN last.calls, e \in engines :
                  last.calls[i].fn \in ConstructFns
                      => last.calls[i].ret \notin {e.raw, e._settings}

\* C14 witness: Engine::new has returned an Engine.
C14_Witness ==
    /\ last.ret.op = "Engine::new"
    /\ last.ret.tag = "Ok"
    /\ [raw |-> last.ret.raw, _settings |-> last.ret._settings] \in engines

\* The error kinds of the specification, each with the texts that the
\* Errors of that kind display.
KindTexts ==
    [InvalidArgument |->
         {m \o ": nul byte found in provided data at position: " \o ToString(n) :
              m \in {"LiteRT-LM Error: Invalid model path",
                     "LiteRT-LM Error: Invalid backend string",
                     "LiteRT-LM Error: Invalid prompt"},
              n \in {FirstNul(s) - 1 : s \in {x \in Paths \cup Prompts : ContainsNul(x)}}},
     NativeConstructionFailed |->
         {"LiteRT-LM Error: Failed to create engine settings",
          "LiteRT-LM Error: Failed to create engine",
          "LiteRT-LM Error: Failed to create session"},
     GenerationFailed |-> {"LiteRT-LM Error: Failed to generate content"},
     EmptyResponse |-> {"LiteRT-LM Error: No response generated"},
     MetricsUnavailable |-> {"LiteRT-LM Error: Failed to get benchmark info"}]

Kinds == DOMAIN KindTexts

\* fn answered null in the call that returned last.
AnsweredNull(fn) == \E i \in CallsOf(last.calls, fn) : last.calls[i].ret = NULL

\* What failed in the call that returned last, told from its arguments and
\* from the answers of its native calls; "none" if nothing did.
Failure ==
    IF \/ last.ret.op = "Engine::new" /\ ContainsNul(last.input.model_path)
       \/ last.ret.op = "generate" /\ ContainsNul(last.input.prompt)
    THEN "InvalidArgument"
    ELSE IF \E fn \in ConstructFns : AnsweredNull(fn)
    THEN "NativeConstructionFailed"
    ELSE IF AnsweredNull("session_generate_content") THEN "GenerationFailed"
    ELSE IF AnsweredNull("responses_get_response_text_at") THEN "EmptyResponse"
    ELSE IF AnsweredNull("session_get_benchmark_info") THEN "MetricsUnavailable"
    ELSE "none"

ResultOps == {"Engine::new", "create_session", "generate", "get_benchmark_info"}

\* C15: every failure is returned as an Error, and nothing else is; the
\* text an Error displays tells its kind: the Error of a failed settings,
\* engine or session construction displays a text of NativeConstructionFailed,
\* every other failure a text of its own kind, and no text belongs to two
\* kinds.
C15_ErrorKinds ==
    /\ \A j, k \in Kinds : j # k => KindTexts[j] \cap KindTexts[k] = {}
    /\ last.ret.op \in ResultOps
           => /\ last.ret.tag = "Err" <=> Failure # "none"
              /\ last.ret.tag = "Err" => fmt(last.ret) \in KindTexts[Failure]

\* C15 witness: a session construction has failed with an Error that
\* displays a text of NativeConstructionFailed, another text than a failed
\* engine construction displays.
C15_Witness ==
    /\ AnsweredNull("engine_create_session")
    /\ last.ret.tag = "Err"
    /\ fmt(last.ret) \in KindTexts.NativeConstructionFailed
    /\ fmt(last.ret) # "LiteRT-LM Error: Failed to create engine"

\* C16: for a prompt with an embedded terminator byte, generate returns the
\* error "Invalid prompt" (InvalidArgument) and has made no native call;
\* the Session is still owned, its handle not deleted.
C16_NulInPrompt ==
    (last.ret.op = "generate" /\ ContainsNul(last.input.prompt))
    => /\ last.ret.tag = "Err"
       /\ last.ret.message = "Invalid prompt"
       /\ fmt(last.ret) \in KindTexts.InvalidArgument
       /\ last.calls = <<>>
       /\ last.input.self \in sessions
       /\ heap[last.input.self.raw].kind = "session"
       /\ heap[last.input.self.raw].deleted = 0

\* C16 witness: generate has rejected a prompt whose terminator byte is in
\* the middle.
C16_Witness ==
    /\ last.ret.op = "generate"
    /\ last.input.prompt = <<72, 0, 105>>
    /\ last.ret.tag = "Err"
    /\ last.ret.nul_position = 1
    /\ last.input.self \in sessions

\* The backend a native text names: "cpu" is 99 112 117, "gpu" 103 112 117.
BackendOfText(text) ==
    IF text = <<99, 112, 117>> THEN "Cpu"
    ELSE IF text = <<103, 112, 117>> THEN "Gpu"
    ELSE "none"

\* The backend texts that the engine_settings_create calls of a log received.
BackendTexts(log) ==
    {log[i].str[2] : i \in CallsOf(log, "engine_settings_create")}

\* C17: as_str writes Cpu as "cpu" and Gpu as "gpu", two different texts;
\* the backend text that engine_settings_create receives is one of the two,
\* and reading it back gives the backend Engine::new was called with; the
\* conversion of the backend text never fails.
C17_BackendRoundTrip ==
    /\ as_str("Cpu") = <<99, 112, 117>>
    /\ as_str("Gpu") = <<103, 112, 117>>
    /\ \A a, b \in Backends : as_str(a) = as_str(b) => a = b
    /\ \A b \in Backends : BackendOfText(as_str(b)) = b
    /\ last.ret.op = "Engine::new"
           => /\ \A text \in BackendTexts(last.calls) :
                     BackendOfText(text) = last.input.backend
              /\ last.ret.tag = "Err" => last.ret.message # "Invalid backend string"
    /\ \A t \in Threads :
           pc[t] = "new_engine_create"
               => \A text \in BackendTexts(calls[t]) :
                      BackendOfText(text) = loc[t].input.backend

\* C17 witness: Engine::new has returned an Engine after handing "gpu" to
\* engine_settings_create for Backend::Gpu.
C17_Witness ==
    /\ last.ret.op = "Engine::new"
    /\ last.ret.tag = "Ok"
    /\ last.input.backend = "Gpu"
    /\ BackendTexts(last.calls) = {<<103, 112, 117>>}

\* The native calls that read or delete a buffer.
BufferFns ==
    Accessors \cup {"responses_get_response_text_at", "CStr::from_ptr",
                    "responses_delete", "benchmark_info_delete"}

\* C18: when session_generate_content answers null, generate returns the
\* error "Failed to generate content" (GenerationFailed); when
\* session_get_benchmark_info answers null, get_benchmark_info returns the
\* error "Failed to get benchmark info" (MetricsUnavailable); in both cases
\* the fetch is the only native call made: no accessor and no delete call
\* follows, on the null handle or on any other.
C18_NullFetch ==
    /\ (last.ret.op = "generate" /\ AnsweredNull("session_generate_content"))
           => /\ last.ret.tag = "Err"
              /\ last.ret.message = "Failed to generate content"
              /\ last.calls =
                     <<Call("session_generate_content", last.input.self.raw, NULL,
                            <<last.input.prompt>>)>>
    /\ (last.ret.op = "get_benchmark_info"
            /\ AnsweredNull("session_get_benchmark_info"))
           => /\ last.ret.tag = "Err"
              /\ last.ret.message = "Failed to get benchmark info"
              /\ last.calls =
                     <<Call("session_get_benchmark_info", last.input.self.raw,
                            NULL, <<>>)>>
    /\ \A i \in DOMAIN last.calls :
           last.calls[i].fn \in BufferFns => last.calls[i].arg # NULL
    /\ \A t \in Threads :
           \A i \in DOMAIN calls[t] :
               calls[t][i].fn \in BufferFns => calls[t][i].arg # NULL

\* C18 witness: get_benchmark_info has returned "Failed to get benchmark
\* info" after the fetch answered null.
C18_Witness ==
    /\ last.ret.op = "get_benchmark_info"
    /\ AnsweredNull("session_get_benchmark_info")
    /\ last.ret.tag = "Err"
    /\ Len(last.calls) = 1

\* C19, after the drop: the drop of a Session has made one native call,
\* session_delete on its handle, and the handle is deleted once.
C19_AfterDrop ==
    last.ret.op = "drop(Session)"
    => /\ last.calls = <<Call("session_delete", last.input.self.raw, NULL, <<>>)>>
       /\ heap[last.input.self.raw].kind = "session"
       /\ heap[last.input.self.raw].deleted = 1
       /\ last.input.self \notin sessions

\* C19, any number of sessions: on an owned Engine an idle thread can start
\* create_session, however many Sessions of it there are, and every owned
\* Session holds a handle of its own that is not deleted.
C19_Sessions ==
    /\ \A e \in engines, t \in Threads :
           pc[t] = "idle" => ENABLED CreateSession(t, e)
    /\ \A s \in sessions :
           heap[s.raw].kind = "session" /\ heap[s.raw].deleted = 0

\* C19, the dropping step: session_delete changes the object of the dropped
\* Session's handle and nothing else: every other session, the engine and
\* the settings are as they were, and so are the owned Engines and Sessions.
C19_DroppingStep ==
    \A t \in Threads :
        (pc[t] = "drop_session_delete" /\ pc'[t] = "idle")
        => /\ \A h \in Handles \ {loc[t].self.raw} : heap'[h] = heap[h]
           /\ engines' = engines
           /\ sessions' = sessions

\* C19: create_session can be called any number of times on an owned
\* Engine, each success giving a Session of its own; dropping one Session
\* issues exactly one session_delete, on its own handle, and leaves every
\* other session handle, the engine handle and the settings handle as they
\* were.
C19_SessionIndependence ==
    /\ [](C19_AfterDrop /\ C19_Sessions)
    /\ [][C19_DroppingStep]_vars

\* C19 witness: a Session has been dropped while another Session of the
\* same Engine is owned, its handle and the Engine's two handles undeleted.
C19_Witness ==
    /\ last.ret.op = "drop(Session)"
    /\ \E s \in sessions, e \in engines :
           /\ heap[s.raw].parent = e.raw
           /\ heap[last.input.self.raw].parent = e.raw
           /\ heap[s.raw].deleted = 0
           /\ heap[e.raw].deleted = 0
           /\ heap[e._settings].deleted = 0

SessionOps == {"generate", "get_benchmark_info"}

\* The native calls that take a settings, engine or session handle to
\* delete it or to build from it.
OwnerFns ==
    ConstructFns \cup {"engine_settings_delete", "engine_delete", "session_delete"}

\* C20, after the call: whichever way generate or get_benchmark_info
\* returned, its Session is owned and holds the same handle, not deleted;
\* the call made no delete or construct call on a session, engine or
\* settings handle; and the thread can start generate and
\* get_benchmark_info on the Session again.
C20_AfterCall ==
    last.ret.op \in SessionOps
    => LET s == last.input.self
       IN  /\ s \in sessions
           /\ heap[s.raw].kind = "session"
           /\ heap[s.raw].deleted = 0
           /\ \A i \in DOMAIN last.calls : last.calls[i].fn \notin OwnerFns
           /\ \A prompt \in Prompts : ENABLED Generate(last.thread, s, prompt)
           /\ ENABLED GetBenchmarkInfo(last.thread, s)

\* Thread t takes a step of generate or get_benchmark_info.
SessionCallStep(t) ==
    \/ pc[t] \in SessionLabels /\ pc'[t] # pc[t]
    \/ pc[t] = "idle" /\ pc'[t] \in SessionLabels
    \/ pc[t] = "idle" /\ last'.thread = t /\ last'.ret.op \in SessionOps

\* C20, the steps of the call: none changes a settings, engine or session
\* object, nor which Engines and Sessions are owned; only buffers come and
\* go.
C20_CallSteps ==
    \A t \in Threads :
        SessionCallStep(t)
        => /\ engines' = engines
           /\ sessions' = sessions
           /\ \A h \in Handles :
                  heap[h].kind \notin BufferKinds \cup {"free"} => heap'[h] = heap[h]
           /\ \A h \in Handles :
                  heap'[h].kind \notin BufferKinds \cup {"free"} => heap'[h] = heap[h]

\* C20: on every exit path generate and get_benchmark_info leave the
\* session handle, the engine handle and the settings handle alone; the
\* Session holds the same undeleted handle after the call, and a further
\* generate or get_benchmark_info call on it can start.
C20_SessionSurvivesCalls ==
    /\ []C20_AfterCall
    /\ [][C20_CallSteps]_vars

\* C20 witness: generate has failed on a null response buffer, and its
\* Session is owned with its handle undeleted.
C20_Witness ==
    /\ last.ret.op = "generate"
    /\ last.ret.tag = "Err"
    /\ last.ret.message = "Failed to generate content"
    /\ last.input.self \in sessions
    /\ heap[last.input.self.raw].deleted = 0

=============================================================================
